---- MODULE Spec2Model ----
(***************************************************************************)
(* Model of saas/management/commands/report_weekly_revenue.py: the period  *)
(* constructor (construct_date_periods), the comparison table builder      *)
(* (get_perf_data, construct_table, calculate_percentage_change) and the   *)
(* per-provider loop of Command.handle.                                    *)
(*                                                                         *)
(* Python values whose type changes over a run (an amount that becomes a   *)
(* string, a result that is None or a list) are tagged records:            *)
(*   [t |-> "int", v |-> n], [t |-> "str", v |-> s], [t |-> "None"], ...   *)
(***************************************************************************)
EXTENDS Integers, Sequences, FiniteSets, TLC

VARIABLES
    pct_current,    \* calculate_percentage_change: argument current
    pct_previous,   \* calculate_percentage_change: argument previous
    pct_result,     \* calculate_percentage_change: returned value
    cdp_at_time,    \* construct_date_periods: argument at_time
    cdp_period,     \* construct_date_periods: argument period
    cdp_timezone,   \* construct_date_periods: argument timezone
    cdp_frame,      \* construct_date_periods: its locals, calls and return value
    tbl_ledger,     \* get_perf_data: what the provider's transactions add up to
    tbl_perf,       \* get_perf_data: the (table, unit) returned, the errors logged;
                    \* the table is the list construct_table changes in place
    tbl_table,      \* construct_table: returned value
    tbl_again,      \* construct_table: returned value of a second call on the table
    options,        \* handle: the options of the command
    ledgers,        \* handle: the transactions of each organization, aggregated
    pc,             \* handle: the statement to run next
    h_at_time,      \* handle: local at_time
    h_period,       \* handle: local period
    h_providers,    \* handle: the providers the query matched, in its order
    h_it,           \* handle: position of the for loop in providers
    h_provider,     \* handle: loop variable
    h_dates,        \* handle: local dates, with prev_period and prev_year
    h_data,         \* handle: local data
    h_unit,         \* handle: local unit
    h_table,        \* handle: local table
    stdout,         \* lines written to self.stdout
    errors,         \* records logged with LOGGER.error
    signals,        \* period_sales_report_created signals sent
    raised          \* the exception that ended handle, None without one

pct_vars == <<pct_current, pct_previous, pct_result>>
cdp_vars == <<cdp_at_time, cdp_period, cdp_timezone, cdp_frame>>
tbl_vars == <<tbl_ledger, tbl_perf, tbl_table, tbl_again>>
handle_inputs == <<options, ledgers>>
handle_locals ==
    <<h_at_time, h_period, h_providers, h_it, h_provider, h_dates, h_data, h_unit, h_table>>
handle_outputs == <<stdout, errors, signals, raised>>
handle_vars == <<handle_inputs, pc, handle_locals, handle_outputs>>

vars == <<pct_vars, cdp_vars, tbl_vars, handle_vars>>

(***************************************************************************)
(* Python values                                                           *)
(***************************************************************************)
PyInt(n) == [t |-> "int", v |-> n]
PyStr(s) == [t |-> "str", v |-> s]
PyNone == [t |-> "None"]
PyRaise(e) == [t |-> "raise", v |-> e]
Pending == [t |-> "pending"]

Abs(n) == IF n < 0 THEN -n ELSE n

(***************************************************************************)
(* Floats.  `amount` of calculate_percentage_change is the double nearest  *)
(* to the exact quotient num/den of two integers; it is kept as the pair   *)
(* [num, den] (den # 0).  A float rounded to two decimals is kept in       *)
(* sign-magnitude form [neg, mag] with mag in hundredths, so that -0.0 and *)
(* 0.0 differ as they do in IEEE-754.                                      *)
(***************************************************************************)
MantissaBits == 53

\* int / int: true division, ZeroDivisionError is decided by the caller.
TrueDiv(num, den) == [num |-> num, den |-> den]

Negative(q) == (q.num < 0 /\ q.den > 0) \/ (q.num > 0 /\ q.den < 0)
Positive(q) == (q.num > 0 /\ q.den > 0) \/ (q.num < 0 /\ q.den < 0)
\* The sign bit of the double: 0 / -n is -0.0.
SignBit(q) == Negative(q) \/ (q.num = 0 /\ q.den < 0)

\* Sign of (double nearest to r/d + integer part) - exact value, found by
\* long division in base 2: `left` significant bits remain to be produced,
\* `started` says a 1 bit has been produced already, r < d is the remainder.
RECURSIVE BinaryError(_, _, _, _, _)
BinaryError(r, d, left, started, lastbit) ==
    IF r = 0 THEN 0
    ELSE IF left = 0
         THEN IF 2 * r > d THEN 1
              ELSE IF 2 * r < d THEN -1
              ELSE IF lastbit = 1 THEN 1 ELSE -1
         ELSE LET bit == IF 2 * r >= d THEN 1 ELSE 0
                  rr == 2 * r - bit * d
                  st == started \/ bit = 1
              IN  BinaryError(rr, d, IF st THEN left - 1 ELSE left, st, bit)

RECURSIVE BitLength(_)
BitLength(n) == IF n = 0 THEN 0 ELSE 1 + BitLength(n \div 2)

\* -1, 0, 1: whether the double nearest to |q| is below, equal to or above |q|.
DoubleError(q) ==
    LET n == Abs(q.num)
        d == Abs(q.den)
        ip == n \div d
    IN  BinaryError(n % d, d, MantissaBits - BitLength(ip), ip > 0, ip % 2)

\* round(amount, 2): the decimal with two places nearest to the double's exact
\* value, ties (which only an exactly representable amount can hit) to even.
Round2(q) ==
    LET n == Abs(q.num) * 100
        d == Abs(q.den)
        fl == n \div d
        r == n % d
        up == IF 2 * r > d THEN TRUE
              ELSE IF 2 * r < d THEN FALSE
              ELSE IF DoubleError(q) > 0 THEN TRUE
              ELSE IF DoubleError(q) < 0 THEN FALSE
              ELSE fl % 2 = 1
    IN  [neg |-> SignBit(q), mag |-> IF up THEN fl + 1 ELSE fl]

\* str(float) of a float with at most two decimals: the shortest repr, which
\* keeps one decimal at least.
FracStr(f) ==
    IF f % 10 = 0 THEN ToString(f \div 10)
    ELSE IF f < 10 THEN "0" \o ToString(f)
    ELSE ToString(f)

FloatStr(x) ==
    (IF x.neg THEN "-" ELSE "") \o ToString(x.mag \div 100) \o "." \o FracStr(x.mag % 100)

(***************************************************************************)
(* construct_table.calculate_percentage_change                             *)
(***************************************************************************)
\* A plausible slip: the sign is decided after rounding.
calculate_percentage_change_rounded_sign(current, previous) ==
    IF current.t # "int" \/ previous.t # "int" THEN PyRaise("TypeError")
    ELSE IF previous.v = 0 THEN PyStr("N/A")
    ELSE LET amount == TrueDiv((current.v - previous.v) * 100, previous.v)
             rounded == Round2(amount)
             percentage == FloatStr(rounded) \o "%"
         IN  IF rounded.mag > 0 /\ ~rounded.neg
             THEN PyStr("+" \o percentage)
             ELSE PyStr(percentage)

\* A plausible slip: the zero test looks at the wrong argument.
calculate_percentage_change_wrong_zero(current, previous) ==
    IF current.t # "int" \/ previous.t # "int" THEN PyRaise("TypeError")
    ELSE IF current.v = 0 \/ previous.v = 0 THEN PyStr("N/A")
    ELSE LET amount == TrueDiv((current.v - previous.v) * 100, previous.v)
             percentage == FloatStr(Round2(amount)) \o "%"
         IN  IF Positive(amount)
             THEN PyStr("+" \o percentage)
             ELSE PyStr(percentage)

calculate_percentage_change(current, previous) ==
    \* int - str, tuple * int ...: TypeError, which the except clause lets through
    IF current.t # "int" \/ previous.t # "int" THEN PyRaise("TypeError")
    \* except ZeroDivisionError: return 'N/A'
    ELSE IF previous.v = 0 THEN PyStr("N/A")
    ELSE LET amount == TrueDiv((current.v - previous.v) * 100, previous.v)
             percentage == FloatStr(Round2(amount)) \o "%"
         IN  IF Positive(amount)
             THEN PyStr("+" \o percentage)
             ELSE PyStr(percentage)

(***************************************************************************)
(* datetime and dateutil.relativedelta                                     *)
(***************************************************************************)
DateTime(y, mo, d, h, mi, s, us, tz) ==
    [t |-> "datetime", year |-> y, month |-> mo, day |-> d, hour |-> h,
     minute |-> mi, second |-> s, microsecond |-> us, tzinfo |-> tz]

IsLeap(y) == (y % 4 = 0 /\ y % 100 # 0) \/ y % 400 = 0

DaysInMonth(y, m) ==
    IF m = 2 THEN (IF IsLeap(y) THEN 29 ELSE 28)
    ELSE IF m \in {4, 6, 9, 11} THEN 30
    ELSE 31

\* dt - relativedelta(years=n): the year moves, the day is clipped to the month.
MinusYears(dt, n) ==
    LET y == dt.year - n
        last == DaysInMonth(y, dt.month)
    IN  [dt EXCEPT !.year = y, !.day = IF dt.day > last THEN last ELSE dt.day]

\* dt - relativedelta(months=n)
MinusMonths(dt, n) ==
    LET total == dt.year * 12 + (dt.month - 1) - n
        y == total \div 12
        m == (total % 12) + 1
        last == DaysInMonth(y, m)
    IN  [dt EXCEPT !.year = y, !.month = m,
                   !.day = IF dt.day > last THEN last ELSE dt.day]

\* dt - relativedelta(days=n)
RECURSIVE MinusDays(_, _)
MinusDays(dt, n) ==
    IF n = 0 THEN dt
    ELSE IF dt.day > 1 THEN MinusDays([dt EXCEPT !.day = @ - 1], n - 1)
    ELSE LET y == IF dt.month = 1 THEN dt.year - 1 ELSE dt.year
             m == IF dt.month = 1 THEN 12 ELSE dt.month - 1
         IN  MinusDays([dt EXCEPT !.year = y, !.month = m,
                                  !.day = DaysInMonth(y, m)], n - 1)

\* dt - relativedelta(hours=n)
RECURSIVE MinusHours(_, _)
MinusHours(dt, n) ==
    IF n = 0 THEN dt
    ELSE IF dt.hour > 0 THEN MinusHours([dt EXCEPT !.hour = @ - 1], n - 1)
    ELSE MinusHours([MinusDays(dt, 1) EXCEPT !.hour = 23], n - 1)

DateFields(dt) ==
    <<dt.year, dt.month, dt.day, dt.hour, dt.minute, dt.second, dt.microsecond>>

RECURSIVE LexLess(_, _)
LexLess(a, b) ==
    IF a = <<>> THEN FALSE
    ELSE IF Head(a) # Head(b) THEN Head(a) < Head(b)
    ELSE LexLess(Tail(a), Tail(b))

\* a < b for two datetimes of one timezone
Before(a, b) == LexLess(DateFields(a), DateFields(b))

(***************************************************************************)
(* utils.parse_tz and the period generators of metrics.base                *)
(***************************************************************************)
PyList(seq) == [t |-> "list", v |-> seq]

\* parse_tz(timezone): the tzinfo of a named timezone, None without a name.
parse_tz(timezone) ==
    IF timezone.t = "str" /\ timezone.v # "" THEN [t |-> "tzinfo", zone |-> timezone.v]
    ELSE PyNone

\* One period of the generator back from dt, n times.
StepBack(func, dt, n) ==
    CASE func = "hour_periods" -> MinusHours(dt, n)
      [] func = "day_periods" -> MinusDays(dt, n)
      [] func = "week_periods" -> MinusDays(dt, 7 * n)
      [] func = "month_periods_v2" -> MinusMonths(dt, n)
      [] func = "year_periods" -> MinusYears(dt, n)

\* hour_periods, day_periods, week_periods, month_periods_v2, year_periods:
\* nb_periods + 1 boundaries walking backward from from_date, one period
\* apart; from_date itself is the last boundary with include_start_date, and
\* lies one period after the last boundary without it.
period_func(func, nb_periods, from_date, tz, include_start_date) ==
    LET last == IF include_start_date THEN from_date ELSE StepBack(func, from_date, 1)
    IN  PyList([i \in 1 .. nb_periods + 1 |->
                   StepBack(func, last, nb_periods + 1 - i)])

\* The record of one call of a period generator.
PeriodCall(func, nb_periods, from_date, tz, include_start_date) ==
    [func |-> func, nb_periods |-> nb_periods, from_date |-> from_date, tz |-> tz,
     include_start_date |-> include_start_date]

(***************************************************************************)
(* Command.construct_date_periods                                          *)
(***************************************************************************)
\* localize_time: tzinfo.localize(time.replace(tzinfo=None)) if tzinfo else time
localize_time(time, tzinfo) ==
    IF tzinfo # PyNone THEN [time EXCEPT !.tzinfo = tzinfo.zone] ELSE time

\* at_time.replace(minute=0 if period != 'yearly' else at_time.minute,
\*                 second=0, microsecond=0)
TruncatedTime(at_time, period) ==
    [at_time EXCEPT !.minute = IF period # "yearly" THEN 0 ELSE at_time.minute,
                    !.second = 0,
                    !.microsecond = 0]

\* A plausible slip: an unknown period falls back to the weekly generator.
PeriodFunc_default_weekly(period) ==
    CASE period = "hourly" -> PyStr("hour_periods")
      [] period = "daily" -> PyStr("day_periods")
      [] period = "weekly" -> PyStr("week_periods")
      [] period = "monthly" -> PyStr("month_periods_v2")
      [] period = "yearly" -> PyStr("year_periods")
      [] OTHER -> PyStr("week_periods")

\* {'hourly': hour_periods, ...}.get(period)
PeriodFunc(period) ==
    CASE period = "hourly" -> PyStr("hour_periods")
      [] period = "daily" -> PyStr("day_periods")
      [] period = "weekly" -> PyStr("week_periods")
      [] period = "monthly" -> PyStr("month_periods_v2")
      [] period = "yearly" -> PyStr("year_periods")
      [] OTHER -> PyNone

\* A plausible slip: the first day of the year gets no second year.
PrevYearFromDate_no_new_year(base_time) ==
    MinusYears(base_time, 1)

\* prev_year_from_date = base_time - relativedelta(years=1), and one more year
\* when base_time is the first day of a year.
PrevYearFromDate(base_time) ==
    LET prev_year_from_date == MinusYears(base_time, 1)
    IN  IF base_time.day = 1 /\ base_time.month = 1
        THEN MinusYears(prev_year_from_date, 1)
        ELSE prev_year_from_date

\* A plausible slip: the year-ago call passes the flag of the recent call.
YearAgoIncludeStart_same_flag(include_start) == include_start

\* include_start_date=False of the year-ago call
YearAgoIncludeStart(include_start) == FALSE

\* The whole function: its locals, the generator calls it made, and `ret`, the
\* pair it returns.
construct_date_periods(at_time, period, timezone) ==
    LET tzinfo == parse_tz(timezone)
        base_time == localize_time(TruncatedTime(at_time, period), tzinfo)
        func == PeriodFunc(period)
    IN  IF func = PyNone
        THEN [base_time |-> base_time, period_func |-> func,
              include_start |-> PyNone, prev_year_from_date |-> PyNone,
              calls |-> <<>>, ret |-> <<PyNone, PyNone>>]
        ELSE LET include_start == (period = "yearly")
                 prev_year_from_date == PrevYearFromDate(base_time)
                 flag == YearAgoIncludeStart(include_start)
                 prev_period == period_func(func.v, 2, base_time, tzinfo, include_start)
                 prev_year == period_func(func.v, 1, prev_year_from_date, tzinfo, flag)
             IN  [base_time |-> base_time, period_func |-> func,
                  include_start |-> [t |-> "bool", v |-> include_start],
                  prev_year_from_date |-> prev_year_from_date,
                  calls |-> <<PeriodCall(func.v, 2, base_time, tzinfo, include_start),
                              PeriodCall(func.v, 1, prev_year_from_date, tzinfo, flag)>>,
                  ret |-> <<prev_period, prev_year>>]

(***************************************************************************)
(* humanize.as_money, settings.DEFAULT_UNIT and the aggregations of        *)
(* metrics.base                                                            *)
(***************************************************************************)
\* as_money(value, unit): the amount as a money text in the unit; the text is
\* kept as the pair it is made of.
as_money(value, unit) ==
    IF value.t # "int" THEN PyRaise("TypeError")
    ELSE [t |-> "money", v |-> value.v, unit |-> unit]

DEFAULT_UNIT == PyStr("usd")

\* get_different_units(*units): the distinct units observed, first seen first;
\* an aggregation over no transaction reports no unit (None).
RECURSIVE DistinctInOrder(_, _)
DistinctInOrder(units, seen) ==
    IF units = <<>> THEN seen
    ELSE IF Head(units) = PyNone \/ \E i \in 1 .. Len(seen) : seen[i] = Head(units)
         THEN DistinctInOrder(Tail(units), seen)
         ELSE DistinctInOrder(Tail(units), Append(seen, Head(units)))

get_different_units(table_unit, payments_unit, refund_unit) ==
    DistinctInOrder(<<table_unit, payments_unit, refund_unit>>, <<>>)

\* The amounts of one category over the windows of date_periods: one
\* (boundary, amount) pair per window.  `sums` holds what the provider's
\* transactions add up to: prev and last over the two recent windows,
\* prev_year over the year-ago window.
PeriodAmounts(sums, date_periods) ==
    LET dates == date_periods.v
    IN  [k \in 1 .. Len(dates) - 1 |->
            <<dates[k + 1],
              PyInt(IF Len(dates) = 2 THEN sums.prev_year
                    ELSE IF k = 1 THEN sums.prev ELSE sums.last)>>]

\* aggregate_transactions_change_by_period(...): (account_table, _, _, unit),
\* account_table with the rows Total Sales, New Sales, Churned Sales.
aggregate_transactions_change_by_period(ledger, date_periods) ==
    [account_table |->
        [r \in 1 .. 3 |-> [values |-> PeriodAmounts(ledger.sales[r], date_periods)]],
     unit |-> ledger.table_unit]

\* aggregate_transactions_by_period(...): (_, amounts, unit)
aggregate_transactions_by_period(sums, unit, date_periods) ==
    [amounts |-> PeriodAmounts(sums, date_periods), unit |-> unit]

(***************************************************************************)
(* Command.get_perf_data                                                   *)
(***************************************************************************)
\* A plausible slip: the last unit seen wins.
ReconciledUnit_last_seen(units) ==
    IF units # <<>> THEN units[Len(units)] ELSE DEFAULT_UNIT

\* unit = settings.DEFAULT_UNIT; if units: unit = units[0]
ReconciledUnit(units) ==
    IF units # <<>> THEN units[1] ELSE DEFAULT_UNIT

\* if len(units) > 1: LOGGER.error(...)
UnitErrors(units, period_type) ==
    IF Len(units) > 1
    THEN <<[msg |-> "different units in get_perf_data", period_type |-> period_type,
            units |-> units]>>
    ELSE <<>>

Row(name, last, prev, prev_year) ==
    [slug |-> name, title |-> name,
     values |-> [last |-> last, prev |-> prev, prev_year |-> prev_year]]

\* The (table, unit) returned and the errors logged on the way.
get_perf_data(ledger, prev_periods, prev_year_periods, period_type) ==
    LET sales == aggregate_transactions_change_by_period(ledger, prev_periods)
        account_table == sales.account_table
        account_table_prev_year ==
            aggregate_transactions_change_by_period(ledger, prev_year_periods).account_table
        payments ==
            aggregate_transactions_by_period(
                ledger.payments, ledger.payments_unit, prev_periods)
        payment_amounts == payments.amounts
        payment_amounts_prev_year ==
            aggregate_transactions_by_period(
                ledger.payments, ledger.payments_unit, prev_year_periods).amounts
        refunds ==
            aggregate_transactions_by_period(ledger.refunds, ledger.refund_unit, prev_periods)
        refund_amounts == refunds.amounts
        refund_amounts_prev_year ==
            aggregate_transactions_by_period(
                ledger.refunds, ledger.refund_unit, prev_year_periods).amounts
        units == get_different_units(sales.unit, payments.unit, refunds.unit)
        table ==
            <<Row("Total Sales", account_table[1].values[2][2],
                  account_table[1].values[1][2], account_table_prev_year[1].values[1][2]),
              Row("New Sales", account_table[2].values[2][2],
                  account_table[2].values[1][2], account_table_prev_year[2].values[1][2]),
              Row("Churned Sales", account_table[3].values[2][2],
                  account_table[3].values[1][2], account_table_prev_year[3].values[1][2]),
              Row("Payments", payment_amounts[2][2],
                  payment_amounts[1][2], payment_amounts_prev_year[1][2]),
              Row("Refunds", refund_amounts[2][2],
                  refund_amounts[1][2], refund_amounts_prev_year[1][2])>>
    IN  [table |-> table, unit |-> ReconciledUnit(units),
         errors |-> UnitErrors(units, period_type)]

(***************************************************************************)
(* Command.construct_table                                                 *)
(*                                                                         *)
(* The rows are dictionaries changed in place: ConstructRow and            *)
(* construct_table give, beside what is returned or raised, what the       *)
(* argument holds after the call.                                          *)
(***************************************************************************)
\* A plausible slip: `last` is formatted before the percentages read it.
ConstructRow_format_first(row, unit) ==
    LET val == row.values
        money == as_money(val.last, unit)
    IN  IF money.t = "raise" THEN [row |-> row, raised |-> TRUE]
        ELSE
        LET val1 == [val EXCEPT !.last = money]
            prev == calculate_percentage_change(val1.last, val1.prev)
        IN  IF prev.t = "raise"
            THEN [row |-> [row EXCEPT !.values = val1], raised |-> TRUE]
            ELSE
            LET val2 == [val1 EXCEPT !.prev = prev]
                prev_year == calculate_percentage_change(val2.last, val2.prev_year)
            IN  IF prev_year.t = "raise"
                THEN [row |-> [row EXCEPT !.values = val2], raised |-> TRUE]
                ELSE [row |-> [row EXCEPT !.values = [val2 EXCEPT !.prev_year = prev_year]],
                      raised |-> FALSE]

\* The body of the loop: the three assignments to val, in the order of the
\* code; an assignment whose right-hand side raises is not made and ends the
\* body, the assignments before it stay.
ConstructRow(row, unit) ==
    LET val == row.values
        prev == calculate_percentage_change(val.last, val.prev)
    IN  IF prev.t = "raise" THEN [row |-> row, raised |-> TRUE]
        ELSE
        LET val1 == [val EXCEPT !.prev = prev]
            prev_year == calculate_percentage_change(val1.last, val1.prev_year)
        IN  IF prev_year.t = "raise"
            THEN [row |-> [row EXCEPT !.values = val1], raised |-> TRUE]
            ELSE
            LET val2 == [val1 EXCEPT !.prev_year = prev_year]
                money == as_money(val2.last, unit)
            IN  IF money.t = "raise"
                THEN [row |-> [row EXCEPT !.values = val2], raised |-> TRUE]
                ELSE [row |-> [row EXCEPT !.values = [val2 EXCEPT !.last = money]],
                      raised |-> FALSE]

\* for row in table: row i is reached when no row before it raised; the rows
\* not reached are left as they were.
RowReached(table, unit, i) ==
    \A j \in 1 .. i - 1 : ~ConstructRow(table[j], unit).raised

\* The table after the loop, and whether a row raised.
ConstructRows(table, unit) ==
    [table |-> [i \in 1 .. Len(table) |->
                   IF RowReached(table, unit, i) THEN ConstructRow(table[i], unit).row
                   ELSE table[i]],
     raised |-> \E i \in 1 .. Len(table) : ConstructRow(table[i], unit).raised]

\* A plausible slip: rows without a comparison (N/A) are left out.
construct_table_skips_na(table, unit) ==
    LET Kept(rows) == SelectSeq(rows, LAMBDA r : r.values.prev # PyStr("N/A"))
    IN  CHOOSE call \in {[ret |-> IF done.raised THEN PyRaise("TypeError")
                                  ELSE PyList(Kept(done.table)),
                          table |-> IF done.raised THEN done.table ELSE Kept(done.table)] :
                         done \in {ConstructRows(table, unit)}} : TRUE

\* for row in table: ...; return table.  `ret` is what the call returns (the
\* table itself) or raises, `table` what the argument holds after the call.
construct_table(table, unit) ==
    CHOOSE call \in {[ret |-> IF done.raised THEN PyRaise("TypeError")
                              ELSE PyList(done.table),
                      table |-> done.table] :
                     done \in {ConstructRows(table, unit)}} : TRUE

(***************************************************************************)
(* Command.handle                                                          *)
(***************************************************************************)
MaxProviders == 2

\* The organizations of the database in the order a query returns them:
\* MaxProviders providers and a subscriber that is no provider.
OrgTimezone(k) ==
    IF k = 1 THEN PyNone
    ELSE IF k % 2 = 0 THEN PyStr("America/Los_Angeles")
    ELSE PyStr("Europe/Paris")

Organizations ==
    [k \in 1 .. MaxProviders + 1 |->
        IF k <= MaxProviders
        THEN [slug |-> "provider" \o ToString(k), is_provider |-> TRUE,
              default_timezone |-> OrgTimezone(k)]
        ELSE [slug |-> "subscriber", is_provider |-> FALSE, default_timezone |-> PyNone]]

Slugs == {Organizations[k].slug : k \in 1 .. Len(Organizations)}

\* get_organization_model().objects.filter(is_provider=True), then
\* .filter(slug__in=provider_slugs) if provider_slugs is given and not empty.
MatchedProviders(provider_slugs) ==
    LET is_providers == SelectSeq(Organizations, LAMBDA o : o.is_provider)
    IN  IF provider_slugs # PyNone /\ provider_slugs.v # {}
        THEN SelectSeq(is_providers, LAMBDA o : o.slug \in provider_slugs.v)
        ELSE is_providers

Sender == "saas.management.commands.report_weekly_revenue"

\* A plausible slip: the periods are built once, for the first provider.
LoopDates_first_provider(p) ==
    construct_date_periods(h_at_time, h_period, h_providers[1].default_timezone).ret

\* self.construct_date_periods(at_time, period=period,
\*                             timezone=provider.default_timezone)
LoopDates(p) ==
    construct_date_periods(h_at_time, h_period, p.default_timezone).ret

\* at_time, period, the first line written, the providers query.
HandleStart ==
    /\ pc = "start"
    /\ UNCHANGED <<pct_vars, cdp_vars, tbl_vars>>
    /\ h_at_time' = options.at_time
    /\ h_period' = options.period
    /\ stdout' = Append(stdout, [line |-> "running report_weekly_revenue",
                                 article |-> IF options.period = "hourly" THEN "an" ELSE "a",
                                 period |-> options.period, at_time |-> options.at_time])
    /\ h_providers' = MatchedProviders(options.providers)
    /\ h_it' = 1
    /\ pc' = "for"
    /\ UNCHANGED <<handle_inputs, h_provider, h_dates, h_data, h_unit, h_table, errors,
                   signals, raised>>

\* for provider in providers: the next provider, or the end of the loop.
ForProvider ==
    /\ pc = "for"
    /\ UNCHANGED <<pct_vars, cdp_vars, tbl_vars>>
    /\ IF h_it <= Len(h_providers)
       THEN h_provider' = h_providers[h_it] /\ pc' = "dates"
       ELSE h_provider' = h_provider /\ pc' = "done"
    /\ UNCHANGED <<handle_inputs, h_at_time, h_period, h_providers, h_it, h_dates,
                   h_data, h_unit, h_table, handle_outputs>>

\* dates = self.construct_date_periods(...); prev_period, prev_year = dates
ConstructDates ==
    /\ pc = "dates"
    /\ UNCHANGED <<pct_vars, cdp_vars, tbl_vars>>
    /\ h_dates' = LoopDates(h_provider)
    /\ pc' = "write"
    /\ UNCHANGED <<handle_inputs, h_at_time, h_period, h_providers, h_it, h_provider,
                   h_data, h_unit, h_table, handle_outputs>>

\* The two lines written about the periods: both branches subscript prev_period
\* and prev_year, which raises TypeError on None.
WritePeriods ==
    /\ pc = "write"
    /\ UNCHANGED <<pct_vars, cdp_vars, tbl_vars>>
    /\ LET prev_period == h_dates[1]
           prev_year == h_dates[2]
       IN  IF prev_period.t # "list" \/ prev_year.t # "list"
           THEN /\ raised' = PyRaise("TypeError")
                /\ pc' = "raised"
                /\ stdout' = stdout
           ELSE /\ raised' = raised
                /\ pc' = "perf"
                /\ stdout' = stdout \o
                      <<[line |-> IF h_period = "yearly"
                                  THEN "Two last consecutive yearly periods"
                                  ELSE "Two last consecutive %s periods",
                         dates |-> <<prev_period.v[1], prev_period.v[2],
                                     prev_period.v[2], prev_period.v[3]>>],
                        [line |-> IF h_period = "yearly"
                                  THEN "Year before the corresponding yearly period"
                                  ELSE "Same %s period from the previous year",
                         dates |-> <<prev_year.v[1], prev_year.v[2]>>]>>
    /\ UNCHANGED <<handle_inputs, handle_locals, errors, signals>>

\* data, unit = self.get_perf_data(provider, prev_period, prev_year, period_type=period)
GetPerfData ==
    /\ pc = "perf"
    /\ UNCHANGED <<pct_vars, cdp_vars, tbl_vars>>
    /\ LET perf == get_perf_data(ledgers[h_provider.slug], h_dates[1], h_dates[2], h_period)
       IN  /\ h_data' = PyList(perf.table)
           /\ h_unit' = perf.unit
           /\ errors' = errors \o perf.errors
    /\ pc' = "table"
    /\ UNCHANGED <<handle_inputs, h_at_time, h_period, h_providers, h_it, h_provider,
                   h_dates, h_table, stdout, signals, raised>>

\* table = self.construct_table(data, unit): the list data refers to is changed
\* in place and returned, so data and table are one object.
ConstructTable ==
    /\ pc = "table"
    /\ UNCHANGED <<pct_vars, cdp_vars, tbl_vars>>
    /\ \E call \in {construct_table(h_data.v, h_unit)} :
           /\ h_data' = PyList(call.table)
           /\ IF call.ret.t = "raise"
              THEN raised' = call.ret /\ pc' = "raised" /\ h_table' = h_table
              ELSE raised' = raised /\ pc' = "send" /\ h_table' = call.ret
    /\ UNCHANGED <<handle_inputs, h_at_time, h_period, h_providers, h_it, h_provider,
                   h_dates, h_unit, stdout, errors, signals>>

\* signals.period_sales_report_created.send(sender=__name__, provider=provider,
\*                                          dates=dates, data=table)
SendSignal ==
    /\ pc = "send"
    /\ UNCHANGED <<pct_vars, cdp_vars, tbl_vars>>
    /\ signals' = Append(signals, [sender |-> Sender, provider |-> h_provider,
                                   dates |-> h_dates, data |-> h_table])
    /\ h_it' = h_it + 1
    /\ pc' = "for"
    /\ UNCHANGED <<handle_inputs, h_at_time, h_period, h_providers, h_provider,
                   h_dates, h_data, h_unit, h_table, stdout, errors, raised>>

(***************************************************************************)
(* Each specification below runs one part of the program; the variables of *)
(* the other parts stay idle.                                              *)
(***************************************************************************)
PctIdle == pct_current = 0 /\ pct_previous = 0 /\ pct_result = Pending

CdpIdle ==
    /\ cdp_at_time = PyNone /\ cdp_period = "" /\ cdp_timezone = PyNone
    /\ cdp_frame = Pending

TblIdle ==
    /\ tbl_ledger = PyNone /\ tbl_perf = Pending /\ tbl_table = Pending
    /\ tbl_again = Pending

\* The locals of handle before it runs (not bound yet), and nothing written,
\* logged or sent.
HandleUnbound ==
    /\ h_at_time = Pending /\ h_period = "" /\ h_providers = <<>> /\ h_it = 0
    /\ h_provider = Pending /\ h_dates = <<Pending, Pending>>
    /\ h_data = Pending /\ h_unit = Pending /\ h_table = Pending
    /\ stdout = <<>> /\ errors = <<>> /\ signals = <<>> /\ raised = PyNone

HandleIdle ==
    /\ options = PyNone /\ ledgers = PyNone /\ pc = "idle"
    /\ HandleUnbound

(***************************************************************************)
(* Specification of calculate_percentage_change alone: the arguments are   *)
(* drawn from PctAmounts and the function is applied once.                 *)
(***************************************************************************)
MaxAmount == 3

\* Amounts around which the rounding and sign cases of the function lie.
EdgeAmounts == {32, 33, 50, 80, 100, 150, 800, 801, 4000, 4001, 20000, 20001, 20002}

PctAmounts ==
    (-MaxAmount .. MaxAmount) \cup EdgeAmounts \cup {-a : a \in EdgeAmounts}

PctInit ==
    /\ pct_current \in PctAmounts
    /\ pct_previous \in PctAmounts
    /\ pct_result = Pending
    /\ CdpIdle /\ TblIdle /\ HandleIdle

CallPercentage ==
    /\ pct_result = Pending
    /\ pct_result' = calculate_percentage_change(PyInt(pct_current), PyInt(pct_previous))
    /\ UNCHANGED <<pct_current, pct_previous, cdp_vars, tbl_vars, handle_vars>>

PctNext == CallPercentage

SpecPct == PctInit /\ [][PctNext]_vars

(***************************************************************************)
(* Specification of construct_date_periods alone: the anchor, the period   *)
(* and the timezone are drawn from small sets and the function is called   *)
(* once.                                                                   *)
(***************************************************************************)
MaxYear == 2024

Years == 2023 .. MaxYear

\* (month, day) of the anchors: the first days of a year, the end of February,
\* month ends and a day in the middle of a year.
AnchorDays == {<<1, 1>>, <<1, 2>>, <<2, 28>>, <<2, 29>>, <<3, 1>>, <<3, 31>>,
               <<6, 15>>, <<12, 31>>}

\* datetime_or_now gives an aware UTC datetime.
AtTimes ==
    {DateTime(y, md[1], md[2], h, mi, s, us, "UTC") :
        y \in Years, md \in AnchorDays,
        h \in {0, 13}, mi \in {0, 30}, s \in {0, 45}, us \in {0, 7}}

ValidDate(dt) == dt.day <= DaysInMonth(dt.year, dt.month)

RecognizedPeriods == {"hourly", "daily", "weekly", "monthly", "yearly"}

\* Values of `period` outside the dispatch table.
OtherPeriods == {"quarterly", "biweekly"}

Timezones == {PyNone, PyStr("America/Los_Angeles")}

CdpInit ==
    /\ cdp_at_time \in {dt \in AtTimes : ValidDate(dt)}
    /\ cdp_period \in RecognizedPeriods \cup OtherPeriods
    /\ cdp_timezone \in Timezones
    /\ cdp_frame = Pending
    /\ PctIdle /\ TblIdle /\ HandleIdle

CallConstructDatePeriods ==
    /\ cdp_frame = Pending
    /\ cdp_frame' = construct_date_periods(cdp_at_time, cdp_period, cdp_timezone)
    /\ UNCHANGED <<cdp_at_time, cdp_period, cdp_timezone, pct_vars, tbl_vars, handle_vars>>

CdpNext == CallConstructDatePeriods

SpecPeriods == CdpInit /\ [][CdpNext]_vars

(***************************************************************************)
(* Specification of get_perf_data followed by construct_table, and by a    *)
(* second construct_table on the same table: the sums and units the        *)
(* aggregations report are drawn from small sets.                          *)
(***************************************************************************)
Sums(last, prev, prev_year) == [last |-> last, prev |-> prev, prev_year |-> prev_year]

\* (last, prev, prev_year) of a category: a rise, a fall over a year without
\* sales, and no activity before the last period.
CategorySums == {Sums(150, 100, 80), Sums(80, 100, 0), Sums(50, 0, 0)}

Units == {PyNone, PyStr("usd"), PyStr("eur")}

Ledgers ==
    [sales : [1 .. 3 -> CategorySums], payments : CategorySums, refunds : CategorySums,
     table_unit : Units, payments_unit : Units, refund_unit : Units]

\* The periods get_perf_data is handed in this specification.
SamplePeriods ==
    construct_date_periods(DateTime(2024, 6, 15, 13, 30, 45, 7, "UTC"), "weekly", PyNone).ret

TblInit ==
    /\ tbl_ledger \in Ledgers
    /\ tbl_perf = Pending
    /\ tbl_table = Pending
    /\ tbl_again = Pending
    /\ PctIdle /\ CdpIdle /\ HandleIdle

CallGetPerfData ==
    /\ tbl_perf = Pending
    /\ tbl_perf' = get_perf_data(tbl_ledger, SamplePeriods[1], SamplePeriods[2], "weekly")
    /\ UNCHANGED <<tbl_ledger, tbl_table, tbl_again, pct_vars, cdp_vars, handle_vars>>

\* construct_table(table, unit) on the table get_perf_data returned, which is
\* changed in place.
CallConstructTable ==
    /\ tbl_perf # Pending /\ tbl_table = Pending
    /\ \E call \in {construct_table(tbl_perf.table, tbl_perf.unit)} :
           /\ tbl_table' = call.ret
           /\ tbl_perf' = [tbl_perf EXCEPT !.table = call.table]
    /\ UNCHANGED <<tbl_ledger, tbl_again, pct_vars, cdp_vars, handle_vars>>

\* construct_table once more on the same, now formatted, table.
CallConstructTableAgain ==
    /\ tbl_table # Pending /\ tbl_again = Pending
    /\ \E call \in {construct_table(tbl_perf.table, tbl_perf.unit)} :
           /\ tbl_again' = call.ret
           /\ tbl_perf' = [tbl_perf EXCEPT !.table = call.table]
    /\ UNCHANGED <<tbl_ledger, tbl_table, pct_vars, cdp_vars, handle_vars>>

TblNext == CallGetPerfData \/ CallConstructTable \/ CallConstructTableAgain

SpecTable == TblInit /\ [][TblNext]_vars

(***************************************************************************)
(* Specification of the command: handle runs once over the options and the *)
(* database it is given.                                                   *)
(***************************************************************************)
\* --at-time: the first instant of a year, and an instant inside a year.
HandleAtTimes ==
    {DateTime(2024, 1, 1, 0, 0, 0, 0, "UTC"), DateTime(2024, 6, 15, 13, 30, 45, 7, "UTC")}

\* --period, and one value outside the choices of the parser (call_command and
\* a direct call of handle do not go through it).
HandlePeriods == RecognizedPeriods \cup {"quarterly"}

\* --provider: not given, or a list of slugs.
HandleProviderSlugs == {PyNone} \cup {[t |-> "list", v |-> S] : S \in SUBSET Slugs}

HandleLedgers ==
    {[sales |-> <<Sums(150, 100, 80), Sums(80, 100, 0), Sums(50, 0, 0)>>,
      payments |-> Sums(80, 100, 0), refunds |-> Sums(50, 0, 0),
      table_unit |-> PyStr("usd"), payments_unit |-> PyStr("usd"),
      refund_unit |-> PyStr("eur")],
     [sales |-> <<Sums(80, 100, 0), Sums(50, 0, 0), Sums(150, 100, 80)>>,
      payments |-> Sums(150, 100, 80), refunds |-> Sums(50, 0, 0),
      table_unit |-> PyStr("eur"), payments_unit |-> PyNone,
      refund_unit |-> PyStr("eur")],
     [sales |-> <<Sums(50, 0, 0), Sums(50, 0, 0), Sums(50, 0, 0)>>,
      payments |-> Sums(50, 0, 0), refunds |-> Sums(50, 0, 0),
      table_unit |-> PyNone, payments_unit |-> PyNone, refund_unit |-> PyNone]}

ProviderSlugs ==
    {Organizations[k].slug :
        k \in {j \in 1 .. Len(Organizations) : Organizations[j].is_provider}}

Init ==
    /\ options \in [at_time : HandleAtTimes, period : HandlePeriods,
                    providers : HandleProviderSlugs]
    /\ ledgers \in [ProviderSlugs -> HandleLedgers]
    /\ pc = "start"
    /\ HandleUnbound
    /\ PctIdle /\ CdpIdle /\ TblIdle

Next ==
    \/ HandleStart
    \/ ForProvider
    \/ ConstructDates
    \/ WritePeriods
    \/ GetPerfData
    \/ ConstructTable
    \/ SendSignal

Spec == Init /\ [][Next]_vars

(***************************************************************************)
(* Claims about calculate_percentage_change (under SpecPct)                *)
(***************************************************************************)
PctDone == pct_result # Pending

StartsWithPlus(s) == Len(s) > 0 /\ SubSeq(s, 1, 1) = "+"

\* The hundredths h (signed) with |exact percentage * 100 - h| <= 1/2.
NearestHundredths(current, previous) ==
    LET n == IF previous < 0 THEN -(current - previous) * 10000
             ELSE (current - previous) * 10000
        d == Abs(previous)
        fl == n \div d
    IN  {h \in {fl, fl + 1} : 2 * Abs(n - h * d) <= d}

\* The texts str() gives for the float h / 100 (0 has two floats, 0.0 and -0.0).
DecimalTexts(h) ==
    {FloatStr([neg |-> h < 0, mag |-> Abs(h)])}
        \cup (IF h = 0 THEN {FloatStr([neg |-> TRUE, mag |-> 0])} ELSE {})

\* C1: calculate_percentage_change returns "N/A" if and only if previous is 0
\* (current 0 included); for every other previous it never raises and returns
\* the percentage (current - previous) * 100 / previous rounded to two decimals,
\* followed by "%" (150,100 gives "+50.0%", 80,100 "-20.0%", 50,0 "N/A").
C1_PercentageOrNA ==
    PctDone =>
        /\ pct_result.t = "str"
        /\ (pct_result.v = "N/A") <=> (pct_previous = 0)
        /\ pct_previous # 0 =>
              \E h \in NearestHundredths(pct_current, pct_previous) :
                 \E txt \in DecimalTexts(h) :
                    pct_result.v \in {txt \o "%", "+" \o txt \o "%"}
        /\ (pct_current = 150 /\ pct_previous = 100) => pct_result.v = "+50.0%"
        /\ (pct_current = 80 /\ pct_previous = 100) => pct_result.v = "-20.0%"
        /\ (pct_current = 50 /\ pct_previous = 0) => pct_result.v = "N/A"

C1_Witness ==
    /\ PctDone
    /\ pct_current = 0 /\ pct_previous = 0
    /\ pct_result = PyStr("N/A")

\* C2 as stated: for previous # 0 the result starts with "+" exactly when the
\* rounded percentage, the value that is printed, is greater than 0.
C2_PlusOnRoundedValue ==
    (PctDone /\ pct_previous # 0) =>
        LET pct == Round2(TrueDiv((pct_current - pct_previous) * 100, pct_previous))
        IN  StartsWithPlus(pct_result.v) <=> (pct.mag > 0 /\ ~pct.neg)

\* C2 amended: for previous # 0 the result starts with "+" exactly when the
\* unrounded amount (current - previous) * 100 / previous is greater than 0; a
\* negative or zero amount never carries a "+", and a printed 0.0 carries one
\* when the amount is positive and rounds to 0.0.
C2_PlusOnUnroundedAmount ==
    (PctDone /\ pct_previous # 0) =>
        /\ StartsWithPlus(pct_result.v) <=>
              \/ (pct_current > pct_previous /\ pct_previous > 0)
              \/ (pct_current < pct_previous /\ pct_previous < 0)
        /\ (pct_result.v = "+0.0%") <=>
              /\ (pct_current - pct_previous) * pct_previous > 0
              /\ 2 * Abs(pct_current - pct_previous) * 10000 < Abs(pct_previous)

C2_Witness ==
    /\ PctDone
    /\ pct_current = 20002 /\ pct_previous = 20001
    /\ pct_result = PyStr("+0.0%")

(***************************************************************************)
(* Claims about construct_date_periods (under SpecPeriods)                 *)
(***************************************************************************)
CdpDone == cdp_frame # Pending

CdpRecognized == cdp_period \in RecognizedPeriods

StrictlyIncreasing(dates) ==
    \A i \in 1 .. Len(dates) - 1 : Before(dates[i], dates[i + 1])

\* C4: for every recognized period and anchor, the from-date of the year-ago
\* sequence is the truncated, localized anchor minus one year, and minus two
\* years when that anchor is on the first of January (any hour, any period);
\* 2024-01-01T00:00:00Z yearly gives 2022-01-01T00:00:00Z, any other day of
\* 2024 gives a date in 2023.
C4_PrevYearFromDate ==
    (CdpDone /\ CdpRecognized) =>
        LET b == cdp_frame.base_time
            n == IF b.day = 1 /\ b.month = 1 THEN 2 ELSE 1
            expected ==
                [b EXCEPT !.year = @ - n,
                          !.day = IF b.month = 2 /\ b.day = 29 /\ ~IsLeap(b.year - n)
                                  THEN 28 ELSE @]
        IN  /\ b.day = cdp_at_time.day /\ b.month = cdp_at_time.month
            /\ b.year = cdp_at_time.year /\ b.hour = cdp_at_time.hour
            /\ cdp_frame.prev_year_from_date = expected
            /\ cdp_frame.calls[2].from_date = expected
            /\ (cdp_at_time = DateTime(2024, 1, 1, 0, 0, 0, 0, "UTC")
                    /\ cdp_period = "yearly" /\ cdp_timezone = PyNone)
                  => cdp_frame.prev_year_from_date = DateTime(2022, 1, 1, 0, 0, 0, 0, "UTC")
            /\ (b.year = 2024 /\ n = 1) => cdp_frame.prev_year_from_date.year = 2023

C4_Witness ==
    /\ CdpDone
    /\ cdp_period = "daily"
    /\ cdp_at_time.month = 1 /\ cdp_at_time.day = 1 /\ cdp_at_time.hour = 13
    /\ cdp_at_time.year = 2024
    /\ cdp_frame.prev_year_from_date.year = 2022

\* C5: for every recognized period and anchor, `recent` has 3 strictly
\* increasing boundaries, generated with count 2 from the truncated anchor, and
\* `year_ago` has 2, generated with count 1 from prev_year_from_date; the
\* include_start_date flag of the recent call is true exactly for yearly, and
\* the flag of the year-ago call is false for every period.
C5_BoundariesAndFlags ==
    (CdpDone /\ CdpRecognized) =>
        LET recent == cdp_frame.ret[1]
            year_ago == cdp_frame.ret[2]
            calls == cdp_frame.calls
        IN  /\ Len(calls) = 2
            /\ calls[1].func = calls[2].func
            /\ calls[1].nb_periods = 2 /\ calls[1].from_date = cdp_frame.base_time
            /\ calls[2].nb_periods = 1
            /\ calls[2].from_date = cdp_frame.prev_year_from_date
            /\ recent.t = "list" /\ Len(recent.v) = 3 /\ StrictlyIncreasing(recent.v)
            /\ year_ago.t = "list" /\ Len(year_ago.v) = 2 /\ StrictlyIncreasing(year_ago.v)
            /\ calls[1].include_start_date <=> (cdp_period = "yearly")
            /\ calls[2].include_start_date = FALSE

C5_Witness ==
    /\ CdpDone
    /\ cdp_period = "yearly"
    /\ Len(cdp_frame.ret[1].v) = 3 /\ Len(cdp_frame.ret[2].v) = 2
    /\ cdp_frame.calls[1].include_start_date
    /\ ~cdp_frame.calls[2].include_start_date

\* C6: for every period outside hourly, daily, weekly, monthly, yearly,
\* construct_date_periods returns normally a pair of two empty results
\* (None, None) and calls no period generator.
C6_UnrecognizedPeriodIsEmpty ==
    (CdpDone /\ ~CdpRecognized) =>
        /\ cdp_frame.ret = <<PyNone, PyNone>>
        /\ cdp_frame.calls = <<>>

C6_Witness ==
    /\ CdpDone
    /\ cdp_period = "quarterly"
    /\ cdp_frame.ret = <<PyNone, PyNone>>

(***************************************************************************)
(* Claims about get_perf_data and construct_table (under SpecTable)        *)
(***************************************************************************)
PerfDone == tbl_perf # Pending

TableDone == tbl_table # Pending

CategoryNames == <<"Total Sales", "New Sales", "Churned Sales", "Payments", "Refunds">>

\* The sums of the category of row i in the ledger.
LedgerSums(ledger, i) ==
    IF i <= 3 THEN ledger.sales[i]
    ELSE IF i = 4 THEN ledger.payments
    ELSE ledger.refunds

\* The numeric values get_perf_data puts in row i.
RawValues(ledger, i) ==
    LET sums == LedgerSums(ledger, i)
    IN  [last |-> PyInt(sums.last), prev |-> PyInt(sums.prev),
         prev_year |-> PyInt(sums.prev_year)]

\* C3: every row returned by construct_table has prev = the percentage change of
\* the numeric last relative to the numeric prev, prev_year = the percentage
\* change of the numeric last relative to the numeric prev_year, and
\* last = as_money(last, unit); slug and title are unchanged.  The numeric
\* values are those get_perf_data put in the row, and the table returned is the
\* table passed in, changed in place.
C3_RowsComparedThenFormatted ==
    /\ (PerfDone /\ ~TableDone) =>
          \A i \in 1 .. Len(tbl_perf.table) :
              tbl_perf.table[i].values = RawValues(tbl_ledger, i)
    /\ TableDone =>
        /\ tbl_table.t = "list"
        /\ tbl_table.v = tbl_perf.table
        /\ Len(tbl_table.v) = Len(CategoryNames)
        /\ \A i \in 1 .. Len(tbl_table.v) :
              LET row == tbl_table.v[i]
                  raw == RawValues(tbl_ledger, i)
                  sums == LedgerSums(tbl_ledger, i)
              IN  /\ row.values.prev = calculate_percentage_change(raw.last, raw.prev)
                  /\ row.values.prev_year =
                        calculate_percentage_change(raw.last, raw.prev_year)
                  /\ row.values.last = as_money(raw.last, tbl_perf.unit)
                  /\ row.slug = CategoryNames[i] /\ row.title = CategoryNames[i]
                  /\ sums = Sums(150, 100, 80) =>
                        /\ row.values.prev = PyStr("+50.0%")
                        /\ row.values.prev_year = PyStr("+87.5%")
                  /\ sums = Sums(80, 100, 0) =>
                        /\ row.values.prev = PyStr("-20.0%")
                        /\ row.values.prev_year = PyStr("N/A")

C3_Witness ==
    /\ TableDone
    /\ tbl_ledger.sales[1] = Sums(150, 100, 80)
    /\ tbl_table.v[1].values.prev = PyStr("+50.0%")
    /\ tbl_table.v[1].values.prev_year = PyStr("+87.5%")
    /\ tbl_table.v[1].values.last.t = "money" /\ tbl_table.v[1].values.last.v = 150
    /\ tbl_perf.table[1].values.prev = PyStr("+50.0%")

\* C8: whatever the aggregations report, the table of get_perf_data, before and
\* after construct_table, has the five rows Total Sales, New Sales, Churned
\* Sales, Payments, Refunds in this order, each slug equal to its title.
C8_FiveRowsInOrder ==
    /\ PerfDone =>
          /\ Len(tbl_perf.table) = 5
          /\ \A i \in 1 .. 5 :
                /\ tbl_perf.table[i].slug = CategoryNames[i]
                /\ tbl_perf.table[i].title = CategoryNames[i]
    /\ TableDone =>
          /\ tbl_table.t = "list"
          /\ Len(tbl_table.v) = 5
          /\ \A i \in 1 .. 5 :
                /\ tbl_table.v[i].slug = CategoryNames[i]
                /\ tbl_table.v[i].title = CategoryNames[i]

C8_Witness ==
    /\ TableDone
    /\ Len(tbl_table.v) = 5
    /\ tbl_table.v[5].slug = "Refunds"
    /\ tbl_table.v[2].values.prev = PyStr("N/A")
    /\ tbl_ledger.sales[1] # tbl_ledger.sales[2]
    /\ tbl_ledger.payments # tbl_ledger.refunds

\* The units observed among the three reported, None being no unit.
ObservedUnits(ledger) ==
    {ledger.table_unit, ledger.payments_unit, ledger.refund_unit} \ {PyNone}

\* The first unit observed, in the order sales, payments, refunds.
FirstSeenUnit(ledger) ==
    IF ledger.table_unit # PyNone THEN ledger.table_unit
    ELSE IF ledger.payments_unit # PyNone THEN ledger.payments_unit
    ELSE ledger.refund_unit

\* C9: the unit get_perf_data returns is the first seen of the units the sales,
\* payments and refunds aggregations report (usd, usd, eur gives usd), and the
\* default unit when none is observed; an error is logged if and only if more
\* than one distinct unit is observed, and the table is returned all the same.
C9_UnitReconciliation ==
    PerfDone =>
        /\ tbl_perf.unit = IF ObservedUnits(tbl_ledger) = {} THEN DEFAULT_UNIT
                           ELSE FirstSeenUnit(tbl_ledger)
        /\ (tbl_perf.errors # <<>>) <=> (Cardinality(ObservedUnits(tbl_ledger)) > 1)
        /\ Len(tbl_perf.errors) <= 1
        /\ Len(tbl_perf.table) = 5
        /\ (tbl_ledger.table_unit = PyStr("usd") /\ tbl_ledger.payments_unit = PyStr("usd")
                /\ tbl_ledger.refund_unit = PyStr("eur"))
              => (tbl_perf.unit = PyStr("usd") /\ Len(tbl_perf.errors) = 1)

C9_Witness ==
    /\ PerfDone
    /\ tbl_ledger.table_unit = PyStr("usd") /\ tbl_ledger.payments_unit = PyStr("usd")
    /\ tbl_ledger.refund_unit = PyStr("eur")
    /\ tbl_perf.unit = PyStr("usd")
    /\ Len(tbl_perf.errors) = 1
    /\ tbl_perf.errors[1].units = <<PyStr("usd"), PyStr("eur")>>

(***************************************************************************)
(* Claims about handle (under Spec)                                        *)
(***************************************************************************)
HandleRecognized == options.period \in RecognizedPeriods

InLoopBody == pc \in {"dates", "write", "perf", "table", "send"}

\* C7: with a period outside the five recognized ones and at least one matched
\* provider, handle does not subscript the empty result of
\* construct_date_periods and ends without an exception.
C7_UnsupportedPeriodHandled ==
    (~HandleRecognized /\ pc # "start" /\ Len(h_providers) >= 1) =>
        (raised = PyNone /\ pc # "raised")

\* What the signal of provider p carries when it is built from p's own
\* timezone and transactions and the shared at_time and period.
ExpectedSignal(p) ==
    LET d == construct_date_periods(options.at_time, options.period, p.default_timezone).ret
        perf == get_perf_data(ledgers[p.slug], d[1], d[2], options.period)
    IN  [sender |-> Sender, provider |-> p, dates |-> d,
         data |-> construct_table(perf.table, perf.unit).ret]

\* C10: with a recognized period and any list of matched providers, handle
\* never raises and is always at a statement of the loop or at its end, where
\* every matched provider has its signal: the providers are processed one
\* after another in the order of the query, exactly i - 1 signals have been
\* sent while provider i is computed, and each signal carries the dates and
\* the table built from its provider's own timezone and transactions and the
\* shared at_time and period.
C10_OneSignalPerProviderInOrder ==
    (HandleRecognized /\ pc # "start") =>
        /\ raised = PyNone /\ pc # "raised"
        /\ h_providers = MatchedProviders(options.providers)
        /\ \A j, k \in 1 .. Len(h_providers) : j # k => h_providers[j] # h_providers[k]
        /\ Len(signals) <= Len(h_providers)
        /\ \A k \in 1 .. Len(signals) : signals[k] = ExpectedSignal(h_providers[k])
        /\ Len(signals) = h_it - 1
        /\ InLoopBody => (h_it <= Len(h_providers) /\ h_provider = h_providers[h_it])
        /\ pc = "done" => Len(signals) = Len(h_providers)
        /\ pc \in {"for", "dates", "write", "perf", "table", "send", "done"}

C10_Witness ==
    /\ pc = "done"
    /\ HandleRecognized
    /\ Len(signals) = 2
    /\ signals[1].provider # signals[2].provider
    /\ signals[1].dates # signals[2].dates
    /\ signals[1].data # signals[2].data

====
